---- MODULE Spec2Model ----
(***************************************************************************)
(* VSched (vsched.py): classification of one astronomical night from the   *)
(* four ephemeris events (class vephem) and the dark-run / bright-run      *)
(* numbering loop that consumes the classified nights in date order.       *)
(*                                                                         *)
(* Timestamps and durations are whole hours.  Moon illumination fractions  *)
(* and the two phase thresholds are in thousandths (0.666 is 666).         *)
(***************************************************************************)
EXTENDS Integers, Sequences, FiniteSets

\* ------------------------------------------------------------------ bounds
\* event timestamps range over 0..MaxTime
MaxTime == 4
\* number of nights of the date range in the run-numbering specification
MaxNights == 4

\* ------------------------------------------------------- program constants
default_max_rhv_phase == 666
default_max_moon_phase == 300
default_minimum_interval == 2

\* illumination fractions: below, at and between the thresholds, and above
Fracs == {100, 300, 666, 800}
\* moon altitude (degrees) at an event: below the horizon, on it
Alts == {-1, 0}
Times == 0..MaxTime

\* Python's None for an event-valued attribute, a duration and a mode
NoneEvent == [dt |-> -1, moon_frac |-> -1, moon_alt |-> 0, label |-> "None"]
NoneDuration == -1000
NoneMode == "None"

max(a, b) == IF a >= b THEN a ELSE b

\* class event
event(dt, fraction, alt, label) ==
    [dt |-> dt, moon_frac |-> fraction, moon_alt |-> alt, label |-> label]

\* ------------------------------------------------------------ vephem object
\* attributes set to None by vephem.__init__ before parse_string
NewVephem ==
    [sunset |-> NoneEvent, sunrise |-> NoneEvent,
     moonset |-> NoneEvent, moonrise |-> NoneEvent,
     end_twilight |-> NoneEvent, moon_event |-> NoneEvent,
     begin_twilight |-> NoneEvent,
     start_night |-> NoneEvent, end_night |-> NoneEvent,
     night_duration |-> NoneDuration,
     start_moon |-> NoneEvent, end_moon |-> NoneEvent,
     moon_duration |-> NoneDuration,
     start_dark |-> NoneEvent, end_dark |-> NoneEvent,
     dark_duration |-> NoneDuration,
     moon_or_rhv |-> NoneMode,
     slist |-> << >>,
     \* the method of __init__ that has returned last, and the exception
     \* that ended __init__ ("none" when it returned)
     stage |-> "new", error |-> "none"]

\* parse_string: the twelve fields in the order sunset, sunrise, moonset,
\* moonrise
parse_string(self, string) ==
    [self EXCEPT
       !.sunset = event(string.sunset_ts, string.sunset_frac,
                        string.sunset_alt, "sunset"),
       !.sunrise = event(string.sunrise_ts, string.sunrise_frac,
                         string.sunrise_alt, "sunrise"),
       !.moonset = event(string.moonset_ts, string.moonset_frac,
                         string.moonset_alt, "moonset"),
       !.moonrise = event(string.moonrise_ts, string.moonrise_frac,
                          string.moonrise_alt, "moonrise"),
       !.stage = "parse_string"]

\* sorted(): stable, compares with event.__lt__ (dt only), so an element is
\* placed after every element that is not later than it
RECURSIVE insert(_, _)
insert(e, s) ==
    IF s = << >> THEN << e >>
    ELSE IF e.dt < Head(s).dt THEN << e >> \o s
    ELSE << Head(s) >> \o insert(e, Tail(s))

RECURSIVE sorted(_)
sorted(list) ==
    IF list = << >> THEN << >>
    ELSE insert(list[Len(list)], sorted(SubSeq(list, 1, Len(list) - 1)))

\* the while loop of find_events: 0-based index of the sunset in slist
RECURSIVE sunset_index(_, _)
sunset_index(slist, i) ==
    IF i < 4 /\ slist[i + 1].label # "sunset" THEN sunset_index(slist, i + 1)
    ELSE i

is_moon(e) == e.label = "moonrise" \/ e.label = "moonset"

\* find_events: slist[i] of the code is slist[i + 1] here; the name
\* RuntimeException is not defined, so each raise ends in a NameError
find_events(self) ==
    LET i0 == sunset_index(self.slist, 0)
        s1 == [self EXCEPT !.end_twilight = self.slist[i0 + 1]]
        i1 == i0 + 1
    IN  IF i1 >= 4 THEN [s1 EXCEPT !.error = "NameError: RuntimeException"]
        ELSE IF is_moon(self.slist[i1 + 1])
        THEN LET s2 == [s1 EXCEPT !.moon_event = self.slist[i1 + 1]]
                 i2 == i1 + 1
             IN  IF i2 >= 4
                 THEN [s2 EXCEPT !.error = "NameError: RuntimeException"]
                 ELSE [s2 EXCEPT !.begin_twilight = self.slist[i2 + 1],
                                 !.stage = "find_events"]
        ELSE [s1 EXCEPT !.begin_twilight = self.slist[i1 + 1],
                        !.stage = "find_events"]

\* the conditions of the if-chains shared by find_night, find_dark, find_moon
up_all_night(self) ==
    self.moonrise.dt < self.sunset.dt /\ self.moonset.dt > self.sunrise.dt
down_all_night(self) ==
    self.moonset.dt < self.sunset.dt /\ self.moonrise.dt > self.sunrise.dt
both_before_sunset(self) ==
    self.moonset.dt < self.sunset.dt /\ self.moonrise.dt < self.sunset.dt
both_after_sunrise(self) ==
    self.moonset.dt > self.sunrise.dt /\ self.moonrise.dt > self.sunrise.dt

\* night_tail without the re-widening
night_tail_kept(self, args) ==
    [self EXCEPT !.night_duration = self.end_night.dt - self.start_night.dt,
                 !.stage = "find_night"]

\* night_tail with the re-widening at night_duration <= minimum_interval
night_tail_inclusive(self, args) ==
    LET d == self.end_night.dt - self.start_night.dt
        s == [self EXCEPT !.night_duration = d, !.stage = "find_night"]
    IN  IF d <= args.minimum_interval
        THEN [s EXCEPT !.start_night = self.sunset, !.end_night = self.sunrise]
        ELSE s

\* the tail of find_night: night_duration, then the re-widening
night_tail(self, args) ==
    LET d == self.end_night.dt - self.start_night.dt
        s == [self EXCEPT !.night_duration = d, !.stage = "find_night"]
    IN  IF d < args.minimum_interval
        THEN [s EXCEPT !.start_night = self.sunset, !.end_night = self.sunrise]
        ELSE s

\* rising_night with the night ending at moonrise from max_rhv_phase on
rising_night_at_threshold(self, args) ==
    [self EXCEPT
       !.start_night = self.sunset,
       !.end_night =
          IF max(self.sunrise.moon_frac, self.moonrise.moon_frac)
               >= args.max_rhv_phase
          THEN self.moonrise ELSE self.sunrise]

\* the moonrise branch of find_night: the night ends at moonrise when the
\* moon is brighter than max_rhv_phase
rising_night(self, args) ==
    [self EXCEPT
       !.start_night = self.sunset,
       !.end_night =
          IF max(self.sunrise.moon_frac, self.moonrise.moon_frac)
               > args.max_rhv_phase
          THEN self.moonrise ELSE self.sunrise]

\* setting_night with the comparison inverted
setting_night_inverted(self, args) ==
    [self EXCEPT
       !.start_night =
          IF max(self.sunset.moon_frac, self.moonset.moon_frac)
               >= args.max_rhv_phase
          THEN self.sunset ELSE self.moonset,
       !.end_night = self.sunrise]

\* the moonset branch of find_night: the night starts at sunset when the
\* moon is not brighter than max_rhv_phase
setting_night(self, args) ==
    [self EXCEPT
       !.start_night =
          IF max(self.sunset.moon_frac, self.moonset.moon_frac)
               <= args.max_rhv_phase
          THEN self.sunset ELSE self.moonset,
       !.end_night = self.sunrise]

find_night(self, args) ==
    IF up_all_night(self) \/ down_all_night(self)
       \/ both_before_sunset(self) \/ both_after_sunrise(self)
    THEN night_tail([self EXCEPT !.start_night = self.sunset,
                                 !.end_night = self.sunrise], args)
    \* self.moon_event.label with moon_event None
    ELSE IF self.moon_event = NoneEvent
    THEN [self EXCEPT !.error = "AttributeError: label"]
    ELSE IF self.moon_event.label = "moonrise"
    THEN night_tail(rising_night(self, args), args)
    ELSE night_tail(setting_night(self, args), args)

\* dark_tail with the subtraction reversed
dark_tail_reversed(self) ==
    [self EXCEPT
       !.dark_duration =
          IF self.end_dark # NoneEvent /\ self.start_dark # NoneEvent
          THEN self.start_dark.dt - self.end_dark.dt ELSE 0,
       !.stage = "find_dark"]

\* the tail of find_dark: dark_duration
dark_tail(self) ==
    [self EXCEPT
       !.dark_duration =
          IF self.end_dark # NoneEvent /\ self.start_dark # NoneEvent
          THEN self.end_dark.dt - self.start_dark.dt ELSE 0,
       !.stage = "find_dark"]

\* outside_dark with a moon on the horizon counted as below it
outside_dark_on_horizon(self) ==
    IF self.sunrise.moon_alt <= 0
    THEN [self EXCEPT !.start_dark = self.sunset, !.end_dark = self.sunrise]
    ELSE [self EXCEPT !.start_dark = NoneEvent, !.end_dark = NoneEvent]

\* the branches of find_dark for both moon events before sunset or both
\* after sunrise: dark all night if the moon is below the horizon at sunrise
outside_dark(self) ==
    IF self.sunrise.moon_alt < 0
    THEN [self EXCEPT !.start_dark = self.sunset, !.end_dark = self.sunrise]
    ELSE [self EXCEPT !.start_dark = NoneEvent, !.end_dark = NoneEvent]

\* setting_dark with the dark interval starting at sunset
setting_dark_from_sunset(self) ==
    [self EXCEPT !.start_dark = self.sunset, !.end_dark = self.sunrise]

\* the moonset branch of find_dark
setting_dark(self) ==
    [self EXCEPT !.start_dark = self.moonset, !.end_dark = self.sunrise]

find_dark(self) ==
    IF up_all_night(self)
    THEN dark_tail([self EXCEPT !.start_dark = NoneEvent,
                                !.end_dark = NoneEvent])
    ELSE IF down_all_night(self)
    THEN dark_tail([self EXCEPT !.start_dark = self.sunset,
                                !.end_dark = self.sunrise])
    ELSE IF both_before_sunset(self) THEN dark_tail(outside_dark(self))
    ELSE IF both_after_sunrise(self) THEN dark_tail(outside_dark(self))
    ELSE IF self.moon_event = NoneEvent
    THEN [self EXCEPT !.error = "AttributeError: label"]
    ELSE IF self.moon_event.label = "moonrise"
    THEN dark_tail([self EXCEPT !.start_dark = self.sunset,
                                !.end_dark = self.moonrise])
    ELSE dark_tail(setting_dark(self))

\* the tail of find_moon: moon_duration
moon_tail(self) ==
    [self EXCEPT
       !.moon_duration =
          IF self.end_moon # NoneEvent /\ self.start_moon # NoneEvent
          THEN self.end_moon.dt - self.start_moon.dt ELSE 0,
       !.stage = "find_moon"]

\* the mode chosen in the moonrise and moonset branches of find_moon from
\* the interval already stored in start_moon, end_moon
moon_mode(self, args) ==
    LET peak == max(self.start_moon.moon_frac, self.end_moon.moon_frac)
    IN  IF peak < args.max_moon_phase THEN "moon"
        ELSE IF peak < args.max_rhv_phase THEN "rhv"
        ELSE NoneMode

\* the branches of find_moon for both moon events before sunset or both
\* after sunrise with the moon up between them: the assignments of the bare
\* names moon and rhv, which the module never defines, raise NameError
whole_night_moon(self, args) ==
    LET s == [self EXCEPT !.start_moon = self.sunset,
                          !.end_moon = self.sunrise]
        peak == max(self.sunset.moon_frac, self.sunrise.moon_frac)
    IN  IF peak < args.max_moon_phase
        THEN [s EXCEPT !.error = "NameError: moon"]
        ELSE IF peak < args.max_rhv_phase
        THEN [s EXCEPT !.error = "NameError: rhv"]
        ELSE moon_tail([s EXCEPT !.moon_or_rhv = NoneMode])

find_moon(self, args) ==
    LET absent == [self EXCEPT !.start_moon = NoneEvent,
                               !.end_moon = NoneEvent,
                               !.moon_or_rhv = NoneMode]
    IN  IF up_all_night(self)
        THEN moon_tail([self EXCEPT !.start_moon = self.sunset,
                                    !.end_moon = self.sunrise,
                                    !.moon_or_rhv = NoneMode])
        ELSE IF down_all_night(self) THEN moon_tail(absent)
        ELSE IF both_before_sunset(self)
        THEN IF self.moonrise.dt > self.moonset.dt
             THEN whole_night_moon(self, args) ELSE moon_tail(absent)
        ELSE IF both_after_sunrise(self)
        THEN IF self.moonset.dt < self.moonrise.dt
             THEN whole_night_moon(self, args) ELSE moon_tail(absent)
        ELSE IF self.moon_event = NoneEvent
        THEN [self EXCEPT !.error = "AttributeError: label"]
        ELSE IF self.moon_event.label = "moonrise"
        THEN LET s == [self EXCEPT !.start_moon = self.moonrise,
                                   !.end_moon = self.sunrise]
             IN  moon_tail([s EXCEPT !.moon_or_rhv = moon_mode(s, args)])
        ELSE LET s == [self EXCEPT !.start_moon = self.sunset,
                                   !.end_moon = self.moonset]
             IN  moon_tail([s EXCEPT !.moon_or_rhv = moon_mode(s, args)])

\* vephem.__init__: each method runs only if the one before it returned
vephem(string, args) ==
    LET p == parse_string(NewVephem, string)
        s0 == [p EXCEPT !.slist = sorted(<< p.sunset, p.sunrise,
                                            p.moonset, p.moonrise >>)]
        s1 == find_events(s0)
        s2 == IF s1.error = "none" THEN find_night(s1, args) ELSE s1
        s3 == IF s2.error = "none" THEN find_dark(s2) ELSE s2
        s4 == IF s3.error = "none" THEN find_moon(s3, args) ELSE s3
    IN  s4

\* ------------------------------------------------------------------- state
VARIABLES
    args,      \* minimum_interval, max_moon_phase, max_rhv_phase, run_mode_type
    string,    \* proc.stdout: the ephemeris line of the night being processed
    v,         \* the vephem object of the night being processed
    pc,        \* position of the main loop
    dcounter,  \* number of the night of the date range being processed
    dark_run_number, dark_run_night_number,
    bright_run_number, bright_run_night_number,
    darkRun, brightRun,
    out,       \* the events printed so far: night type, run, night of the run
    nights     \* dark_duration of the nights processed so far, in date order

vars == << args, string, v, pc, dcounter,
           dark_run_number, dark_run_night_number,
           bright_run_number, bright_run_night_number,
           darkRun, brightRun, out, nights >>

run_vars == << dark_run_number, dark_run_night_number,
               bright_run_number, bright_run_night_number,
               darkRun, brightRun, out, nights >>

\* every line the ephemeris program can print within the bounds; the moon
\* altitude is read at sunrise only
Lines ==
    [sunset_ts : Times, sunset_frac : Fracs, sunset_alt : {-1},
     sunrise_ts : Times, sunrise_frac : Fracs, sunrise_alt : Alts,
     moonset_ts : Times, moonset_frac : Fracs, moonset_alt : {-1},
     moonrise_ts : Times, moonrise_frac : Fracs, moonrise_alt : {-1}]

\* the lines of the run-numbering specification: a bright moon that has set
\* before sunset and rises at any hour, so that dark_duration is 0, below,
\* at and above minimum_interval, or the constructor raises
RunLines ==
    [sunset_ts : {1}, sunset_frac : {800}, sunset_alt : {-1},
     sunrise_ts : {4}, sunrise_frac : {800}, sunrise_alt : {-1},
     moonset_ts : {0}, moonset_frac : {800}, moonset_alt : {-1},
     moonrise_ts : Times, moonrise_frac : {800}, moonrise_alt : {-1}]

NoLine == CHOOSE l \in RunLines : l.moonrise_ts = 0

DefaultArgs ==
    [minimum_interval |-> default_minimum_interval,
     max_moon_phase |-> default_max_moon_phase,
     max_rhv_phase |-> default_max_rhv_phase,
     run_mode_type |-> "None"]

\* the counters and state variables before the loop
run_init ==
    /\ dark_run_number = 0 /\ dark_run_night_number = 0
    /\ bright_run_number = 0 /\ bright_run_night_number = 0
    /\ darkRun = FALSE /\ brightRun = FALSE
    /\ out = << >> /\ nights = << >>

\* one night, its line already read
Init ==
    /\ args = DefaultArgs
    /\ string \in Lines
    /\ v = NewVephem
    /\ pc = "fetched"
    /\ dcounter = 1
    /\ run_init

\* v = vephem(proc.stdout); an exception ends the program
vephem_init ==
    /\ pc = "fetched"
    /\ v' = vephem(string, args)
    /\ pc' = IF v'.error = "none" THEN "built" ELSE "crashed"
    /\ UNCHANGED << args, string, dcounter >>
    /\ UNCHANGED run_vars

Next == vephem_init

Spec == Init /\ [][Next]_vars

\* ------------------------------------------------------------ run numbering
run_state ==
    [dark_run_number |-> dark_run_number,
     dark_run_night_number |-> dark_run_night_number,
     bright_run_number |-> bright_run_number,
     bright_run_night_number |-> bright_run_night_number,
     darkRun |-> darkRun, brightRun |-> brightRun, out |-> out]

printed(night_type, run_number, run_night_number) ==
    [night_type |-> night_type, run_number |-> run_number,
     run_night_number |-> run_night_number]

\* dark_run_block closing a run without adding one to dark_run_number
dark_run_block_same_number(rs, vv, a) ==
    IF a.run_mode_type = "None" \/ a.run_mode_type = "dark_run"
    THEN IF vv.dark_duration >= a.minimum_interval
         THEN LET r == IF rs.dark_run_number = 0
                       THEN [rs EXCEPT !.darkRun = TRUE,
                                       !.dark_run_number = 1,
                                       !.dark_run_night_number = 1]
                       ELSE [rs EXCEPT !.darkRun = TRUE,
                                       !.dark_run_night_number = @ + 1]
              IN  [r EXCEPT !.out = Append(@, printed("DR", r.dark_run_number,
                                                 r.dark_run_night_number))]
         ELSE IF rs.darkRun = TRUE
              THEN [rs EXCEPT !.dark_run_night_number = 0,
                              !.darkRun = FALSE]
              ELSE rs
    ELSE rs

\* dark_run_block closing a run on every night below minimum_interval,
\* whether or not a run is active
dark_run_block_unguarded(rs, vv, a) ==
    IF a.run_mode_type = "None" \/ a.run_mode_type = "dark_run"
    THEN IF vv.dark_duration >= a.minimum_interval
         THEN LET r == IF rs.dark_run_number = 0
                       THEN [rs EXCEPT !.darkRun = TRUE,
                                       !.dark_run_number = 1,
                                       !.dark_run_night_number = 1]
                       ELSE [rs EXCEPT !.darkRun = TRUE,
                                       !.dark_run_night_number = @ + 1]
              IN  [r EXCEPT !.out = Append(@, printed("DR", r.dark_run_number,
                                                 r.dark_run_night_number))]
         ELSE [rs EXCEPT !.dark_run_number = @ + 1,
                         !.dark_run_night_number = 0,
                         !.darkRun = FALSE]
    ELSE rs

\* the dark-run block of the loop body
dark_run_block(rs, vv, a) ==
    IF a.run_mode_type = "None" \/ a.run_mode_type = "dark_run"
    THEN IF vv.dark_duration >= a.minimum_interval
         THEN LET r == IF rs.dark_run_number = 0
                       THEN [rs EXCEPT !.darkRun = TRUE,
                                       !.dark_run_number = 1,
                                       !.dark_run_night_number = 1]
                       ELSE [rs EXCEPT !.darkRun = TRUE,
                                       !.dark_run_night_number = @ + 1]
              IN  [r EXCEPT !.out = Append(@, printed("DR", r.dark_run_number,
                                                 r.dark_run_night_number))]
         ELSE IF rs.darkRun = TRUE
              THEN [rs EXCEPT !.dark_run_number = @ + 1,
                              !.dark_run_night_number = 0,
                              !.darkRun = FALSE]
              ELSE rs
    ELSE rs

\* bright_run_block that never closes a run
bright_run_block_never_closed(rs, vv, a) ==
    IF a.run_mode_type = "None" \/ a.run_mode_type = "bright_run"
    THEN IF vv.dark_duration < a.minimum_interval
         THEN LET r == IF rs.bright_run_number = 0
                       THEN [rs EXCEPT !.brightRun = TRUE,
                                       !.bright_run_number = 1,
                                       !.bright_run_night_number = 1]
                       ELSE [rs EXCEPT !.brightRun = TRUE,
                                       !.bright_run_night_number = @ + 1]
              IN  [r EXCEPT !.out = Append(@, printed("BR", r.bright_run_number,
                                                 r.bright_run_night_number))]
         ELSE rs
    ELSE rs

\* the bright-run block of the loop body
bright_run_block(rs, vv, a) ==
    IF a.run_mode_type = "None" \/ a.run_mode_type = "bright_run"
    THEN IF vv.dark_duration < a.minimum_interval
         THEN LET r == IF rs.bright_run_number = 0
                       THEN [rs EXCEPT !.brightRun = TRUE,
                                       !.bright_run_number = 1,
                                       !.bright_run_night_number = 1]
                       ELSE [rs EXCEPT !.brightRun = TRUE,
                                       !.bright_run_night_number = @ + 1]
              IN  [r EXCEPT !.out = Append(@, printed("BR", r.bright_run_number,
                                                 r.bright_run_night_number))]
         ELSE IF rs.brightRun = TRUE
              THEN [rs EXCEPT !.bright_run_number = @ + 1,
                              !.bright_run_night_number = 0,
                              !.brightRun = FALSE]
              ELSE rs
    ELSE rs

\* the date range before the loop
InitRun ==
    /\ args \in [minimum_interval : {default_minimum_interval},
                 max_moon_phase : {default_max_moon_phase},
                 max_rhv_phase : {default_max_rhv_phase},
                 run_mode_type : {"None", "dark_run", "bright_run"}]
    /\ string = NoLine
    /\ v = NewVephem
    /\ pc = "loop"
    /\ dcounter = 1
    /\ run_init

\* while dcounter <= dtstop_date: proc = subprocess.run(...)
fetch ==
    /\ pc = "loop"
    /\ dcounter <= MaxNights
    /\ string' \in RunLines
    /\ pc' = "fetched"
    /\ UNCHANGED << args, v, dcounter >>
    /\ UNCHANGED run_vars

\* the two run blocks of the loop body and the advance of dcounter
run_blocks ==
    /\ pc = "built"
    /\ LET r == bright_run_block(dark_run_block(run_state, v, args), v, args)
       IN  /\ dark_run_number' = r.dark_run_number
           /\ dark_run_night_number' = r.dark_run_night_number
           /\ bright_run_number' = r.bright_run_number
           /\ bright_run_night_number' = r.bright_run_night_number
           /\ darkRun' = r.darkRun
           /\ brightRun' = r.brightRun
           /\ out' = r.out
    /\ nights' = Append(nights, v.dark_duration)
    /\ dcounter' = dcounter + 1
    /\ pc' = "loop"
    /\ UNCHANGED << args, string, v >>

\* the loop condition fails: the trailer is printed and the program ends
finish ==
    /\ pc = "loop"
    /\ dcounter > MaxNights
    /\ pc' = "done"
    /\ UNCHANGED << args, string, v, dcounter >>
    /\ UNCHANGED run_vars

NextRun == fetch \/ vephem_init \/ run_blocks \/ finish

SpecRun == InitRun /\ [][NextRun]_vars

\* ------------------------------------------------- vocabulary of the claims
\* the record of the night satisfies sunset < sunrise
ValidRecord == string.sunset_ts < string.sunrise_ts

\* the constructor has run (to its end or to an exception) on the line
Constructed == v.stage # "new"
NightFound == v.stage \in {"find_night", "find_dark", "find_moon"}
DarkFound == v.stage \in {"find_dark", "find_moon"}
MoonFound == v.stage = "find_moon"

\* the geometric cases, read off the four timestamps of the line
MoonUpAllNight ==
    string.moonrise_ts < string.sunset_ts /\ string.moonset_ts > string.sunrise_ts
MoonDownAllNight ==
    string.moonset_ts < string.sunset_ts /\ string.moonrise_ts > string.sunrise_ts
BothBeforeSunset ==
    string.moonset_ts < string.sunset_ts /\ string.moonrise_ts < string.sunset_ts
BothAfterSunrise ==
    string.moonset_ts > string.sunrise_ts /\ string.moonrise_ts > string.sunrise_ts
\* the moon event of the night (the event that follows sunset) is a moonrise,
\* a moonset
RisesDuringNight == v.moon_event.label = "moonrise"
SetsDuringNight == v.moon_event.label = "moonset"

GeometricCase(c) ==
    CASE c = 1 -> MoonUpAllNight
      [] c = 2 -> MoonDownAllNight
      [] c = 3 -> BothBeforeSunset
      [] c = 4 -> BothAfterSunrise
      [] c = 5 -> RisesDuringNight
      [] c = 6 -> SetsDuringNight

Present(start, end) == start # NoneEvent /\ end # NoneEvent

\* ----------------------------------------------------------------------- C1
\* the label the run-numbering rule gives night i of a sequence of dark
\* durations: DR when the duration reaches minimum_interval, BR otherwise;
\* the run number is the index of the maximal group of consecutive nights of
\* that type, the night number the position inside the group
TypeOf(ds, i) == IF ds[i] >= args.minimum_interval THEN "DR" ELSE "BR"
StartsGroup(ds, i) == i = 1 \/ TypeOf(ds, i - 1) # TypeOf(ds, i)
GroupIndex(ds, i) ==
    Cardinality({ j \in 1..i : TypeOf(ds, j) = TypeOf(ds, i) /\ StartsGroup(ds, j) })
RECURSIVE PositionInGroup(_, _)
PositionInGroup(ds, i) ==
    IF StartsGroup(ds, i) THEN 1 ELSE PositionInGroup(ds, i - 1) + 1
ExpectedLabel(ds, i) ==
    printed(TypeOf(ds, i), GroupIndex(ds, i), PositionInGroup(ds, i))

\* C1: with both run types enabled every processed night is printed once, as
\* DR k-j or BR k-j by its dark duration, k the index of its maximal group of
\* consecutive nights of that type and j its position in the group.
C1_RunLabels ==
    args.run_mode_type = "None" =>
        /\ Len(out) = Len(nights)
        /\ \A i \in 1..Len(nights) : out[i] = ExpectedLabel(nights, i)

\* the sequence DR1-01, DR1-02, BR1-01, DR2-01 of the example
C1_Witness ==
    /\ args.run_mode_type = "None"
    /\ Len(nights) >= 4
    /\ SubSeq(out, 1, 4) = << printed("DR", 1, 1), printed("DR", 1, 2),
                              printed("BR", 1, 1), printed("DR", 2, 1) >>

\* ----------------------------------------------------------------------- C2
\* C2: for every record with sunset < sunrise the constructor ends without an
\* exception and exactly one of the six geometric cases applies.
C2_TotalClassification ==
    (Constructed /\ ValidRecord) =>
        /\ v.error = "none"
        /\ Cardinality({ c \in 1..6 : GeometricCase(c) }) = 1

\* ----------------------------------------------------------------------- C3
\* C3: a record with sunset >= sunrise makes the constructor raise, whatever
\* the positions of moonrise and moonset.
C3_InvalidGeometryRejected ==
    (Constructed /\ ~ValidRecord) => (v.error # "none" /\ pc = "crashed")

\* ----------------------------------------------------------------------- C4
\* C4: for a valid record, a dark interval that is present lies inside the
\* final night interval.
C4_DarkInsideNight ==
    (ValidRecord /\ DarkFound /\ Present(v.start_dark, v.end_dark)) =>
        /\ v.start_dark.dt >= v.start_night.dt
        /\ v.end_dark.dt <= v.end_night.dt

\* a bright moon sets during the night: the night and the dark interval both
\* start at moonset
C4_Witness ==
    /\ ValidRecord /\ pc = "built"
    /\ v.start_night.label = "moonset"
    /\ v.start_dark.label = "moonset"
    /\ v.dark_duration >= 1

\* ----------------------------------------------------------------------- C5
\* the larger illumination fraction at the two endpoints of the moon interval
MoonPeak == max(v.start_moon.moon_frac, v.end_moon.moon_frac)
MoonInsideNight ==
    /\ v.start_moon.dt >= v.start_night.dt
    /\ v.end_moon.dt <= v.end_night.dt

\* C5 as stated: for a valid record, a moon interval that is present lies
\* inside the final night interval.
C5_MoonInsideNight ==
    (ValidRecord /\ MoonFound /\ Present(v.start_moon, v.end_moon)) =>
        MoonInsideNight

\* C5 as amended: for a valid record, a moon interval that is present and
\* whose peak illumination does not exceed max_rhv_phase (so every interval
\* of mode moon or rhv) lies inside the final night interval.
C5_UsableMoonInsideNight ==
    (/\ ValidRecord /\ MoonFound /\ Present(v.start_moon, v.end_moon)
     /\ MoonPeak <= args.max_rhv_phase) =>
        MoonInsideNight

\* the moon rises during the night at the threshold illumination: the moon
\* interval runs from moonrise to sunrise inside a night that ends at sunrise
C5_Witness ==
    /\ ValidRecord /\ pc = "built"
    /\ v.start_moon.label = "moonrise" /\ v.end_moon.label = "sunrise"
    /\ v.moon_duration >= 1
    /\ MoonPeak = args.max_rhv_phase
    /\ v.end_night.label = "sunrise"

\* ----------------------------------------------------------------------- C6
ModeOfPeak(peak) ==
    IF peak < args.max_moon_phase THEN "moon"
    ELSE IF peak < args.max_rhv_phase THEN "rhv"
    ELSE NoneMode

\* C6: whenever classification yields a moon interval, its mode is the one
\* the peak of the illumination fractions at its two endpoints determines;
\* with the moon up all night the interval is sunset to sunrise.
C6_ModeByPeak ==
    (ValidRecord /\ pc = "built" /\ Present(v.start_moon, v.end_moon)) =>
        /\ v.moon_or_rhv = ModeOfPeak(MoonPeak)
        /\ MoonUpAllNight =>
              (v.start_moon = v.sunset /\ v.end_moon = v.sunrise)

\* ----------------------------------------------------------------------- C7
\* the Step 2 decision table
TableNightStart ==
    IF SetsDuringNight
       /\ max(string.sunset_frac, string.moonset_frac) > args.max_rhv_phase
    THEN v.moonset ELSE v.sunset
TableNightEnd ==
    IF RisesDuringNight
       /\ max(string.sunrise_frac, string.moonrise_frac) > args.max_rhv_phase
    THEN v.moonrise ELSE v.sunrise

\* C7 as stated: for a valid record the night interval is the interval of
\* the Step 2 decision table.
C7_NightTable ==
    (ValidRecord /\ NightFound) =>
        /\ v.start_night = TableNightStart
        /\ v.end_night = TableNightEnd

\* C7 as amended: for a valid record the night interval is the interval of
\* the Step 2 decision table when that interval is at least minimum_interval
\* long, and sunset to sunrise when it is shorter.
C7_NightTableOrWidened ==
    (ValidRecord /\ NightFound) =>
        IF TableNightEnd.dt - TableNightStart.dt >= args.minimum_interval
        THEN v.start_night = TableNightStart /\ v.end_night = TableNightEnd
        ELSE v.start_night = v.sunset /\ v.end_night = v.sunrise

\* a bright moon sets inside the night, exactly minimum_interval before
\* sunrise: the night starts at moonset
C7_Witness ==
    /\ ValidRecord /\ pc = "built"
    /\ SetsDuringNight
    /\ v.start_night = v.moonset
    /\ v.moonset.dt > v.sunset.dt
    /\ v.end_night.dt - v.start_night.dt = args.minimum_interval

\* ----------------------------------------------------------------------- C8
DarkAbsent == v.start_dark = NoneEvent /\ v.end_dark = NoneEvent
DarkIs(start, end) == v.start_dark = start /\ v.end_dark = end

\* C8: for a valid record the dark interval is absent with the moon up all
\* night, sunset to sunrise with the moon down all night, sunset to sunrise
\* or absent by the sign of the moon altitude at sunrise when both moon
\* events precede sunset or both follow sunrise, sunset to moonrise when the
\* moon event of the night is a moonrise, and moonset to sunrise when it is a
\* moonset; dark_duration is its length, zero when it is absent.
C8_DarkTable ==
    (ValidRecord /\ DarkFound) =>
        /\ MoonUpAllNight => DarkAbsent
        /\ MoonDownAllNight => DarkIs(v.sunset, v.sunrise)
        /\ (BothBeforeSunset \/ BothAfterSunrise) =>
              IF string.sunrise_alt < 0
              THEN DarkIs(v.sunset, v.sunrise) ELSE DarkAbsent
        /\ RisesDuringNight => DarkIs(v.sunset, v.moonrise)
        /\ SetsDuringNight => DarkIs(v.moonset, v.sunrise)
        /\ v.dark_duration =
              IF DarkAbsent THEN 0 ELSE v.end_dark.dt - v.start_dark.dt
        /\ v.sunset.dt = string.sunset_ts /\ v.sunrise.dt = string.sunrise_ts
        /\ v.moonset.dt = string.moonset_ts
        /\ v.moonrise.dt = string.moonrise_ts

\* both moon events after sunrise with the moon on the horizon at sunrise:
\* no dark interval
C8_Witness ==
    /\ ValidRecord /\ DarkFound
    /\ BothAfterSunrise
    /\ string.sunrise_alt = 0
    /\ DarkAbsent /\ v.dark_duration = 0

\* ----------------------------------------------------------------------- C9
NoNewDR ==
    \A i \in (Len(out) + 1)..Len(out') : out'[i].night_type # "DR"

\* C9: a night with dark_duration < minimum_interval prints no DR night; if
\* a dark run is active it adds one to dark_run_number, resets
\* dark_run_night_number to 0 and clears darkRun, and if none is active it
\* leaves the three unchanged.
C9_CloseDarkRun ==
    [][(pc = "built" /\ v.dark_duration < args.minimum_interval) =>
          /\ NoNewDR
          /\ IF darkRun
             THEN /\ dark_run_number' = dark_run_number + 1
                  /\ dark_run_night_number' = 0
                  /\ darkRun' = FALSE
             ELSE UNCHANGED << dark_run_number, dark_run_night_number,
                               darkRun >>]_vars

\* a dark run of one night, the night that closed it, and a further night
\* below minimum_interval
C9_Witness ==
    /\ pc = "loop"
    /\ Len(nights) = 3
    /\ nights[1] >= args.minimum_interval
    /\ nights[2] < args.minimum_interval
    /\ nights[3] < args.minimum_interval
    /\ dark_run_number = 2 /\ dark_run_night_number = 0 /\ darkRun = FALSE

\* ---------------------------------------------------------------------- C10
\* the values of max_rhv_phase compared: at and between the illumination
\* fractions of the lines, and above all of them
RhvPhases == {300, 500, 666, 800, 1000}
WithRhv(t) == vephem(string, [args EXCEPT !.max_rhv_phase = t])
NightOf(x) == x.stage \in {"find_night", "find_dark", "find_moon"}
Usable(x) == x.stage = "find_moon" /\ x.moon_or_rhv \in {"moon", "rhv"}

\* C10: for a valid record and fixed max_moon_phase and minimum_interval,
\* the night interval found with a higher max_rhv_phase contains the one
\* found with a lower max_rhv_phase, and a moon interval of mode moon or rhv
\* at the lower value has the same endpoints and mode moon or rhv at the
\* higher.
C10_RhvMonotone ==
    (ValidRecord /\ Constructed) =>
        \A w \in {[t \in RhvPhases |-> WithRhv(t)]} :
          \A lo \in RhvPhases : \A hi \in RhvPhases :
              lo < hi =>
                /\ NightOf(w[lo]) =>
                      /\ NightOf(w[hi])
                      /\ w[hi].start_night.dt <= w[lo].start_night.dt
                      /\ w[hi].end_night.dt >= w[lo].end_night.dt
                /\ Usable(w[lo]) =>
                      /\ Usable(w[hi])
                      /\ w[hi].start_moon = w[lo].start_moon
                      /\ w[hi].end_moon = w[lo].end_moon

\* a moon of illumination 666 sets during the night: with max_rhv_phase 666
\* the night starts at sunset, and the moon interval has mode None, with 800
\* mode rhv
C10_Witness ==
    /\ ValidRecord /\ pc = "built"
    /\ SetsDuringNight
    /\ v.moonset.dt - v.sunset.dt >= 1
    /\ v.sunrise.dt - v.moonset.dt >= args.minimum_interval
    /\ WithRhv(300).start_night.label = "moonset"
    /\ WithRhv(666).start_night.label = "sunset"
    /\ WithRhv(666).moon_or_rhv = NoneMode
    /\ WithRhv(800).moon_or_rhv = "rhv"

\* ---------------------------------------------------------------------- C11
\* C11: for a valid record the night, dark and moon durations are never
\* negative once the method that stores them has returned, and a dark or
\* moon interval that is absent has duration exactly zero.
C11_DurationsNonNegative ==
    ValidRecord =>
        /\ NightFound => v.night_duration >= 0
        /\ DarkFound =>
              /\ v.dark_duration >= 0
              /\ ~Present(v.start_dark, v.end_dark) => v.dark_duration = 0
        /\ MoonFound =>
              /\ v.moon_duration >= 0
              /\ ~Present(v.start_moon, v.end_moon) => v.moon_duration = 0

\* the moon is up all night: no dark interval and zero dark duration, a moon
\* interval and a night interval of the whole span
C11_Witness ==
    /\ ValidRecord /\ pc = "built" /\ MoonUpAllNight
    /\ ~Present(v.start_dark, v.end_dark) /\ v.dark_duration = 0
    /\ Present(v.start_moon, v.end_moon)
    /\ v.moon_duration = string.sunrise_ts - string.sunset_ts
    /\ v.night_duration = v.moon_duration

\* ---------------------------------------------------------------------- C12
\* C12: for a valid record the length find_night computes is the length of
\* the interval of the geometric case; when it is shorter than
\* minimum_interval the final night interval is sunset to sunrise, and when
\* it is at least minimum_interval the start and end of the geometric case
\* are kept.
C12_Rewidened ==
    (ValidRecord /\ NightFound) =>
        /\ v.night_duration = TableNightEnd.dt - TableNightStart.dt
        /\ v.night_duration < args.minimum_interval =>
              (v.start_night = v.sunset /\ v.end_night = v.sunrise)
        /\ v.night_duration >= args.minimum_interval =>
              (v.start_night = TableNightStart /\ v.end_night = TableNightEnd)

\* a bright moon rises less than minimum_interval after sunset: the night
\* of the geometric case would end at moonrise, the final night ends at
\* sunrise
C12_Witness ==
    /\ ValidRecord /\ pc = "built"
    /\ RisesDuringNight
    /\ TableNightEnd = v.moonrise
    /\ v.moonrise.dt - v.sunset.dt < args.minimum_interval
    /\ v.sunset.dt < v.moonrise.dt /\ v.moonrise.dt < v.sunrise.dt
    /\ v.start_night = v.sunset /\ v.end_night = v.sunrise

\* ---------------------------------------------------------------------- C13
\* C13: for a valid record the stored night_duration is the length of the
\* final night interval, end_night.dt - start_night.dt, also when the
\* interval was re-widened to sunset..sunrise.
C13_NightDurationOfFinalInterval ==
    (ValidRecord /\ NightFound) =>
        v.night_duration = v.end_night.dt - v.start_night.dt

\* ---------------------------------------------------------------------- C14
\* the half-open intervals [a, b) and [c, d) share an instant
Overlap(a, b, c, d) == max(a, c) < (IF b <= d THEN b ELSE d)

\* C14: for a valid record the dark interval and the moon interval, when
\* both are present, share no instant; in particular they are never both
\* the whole span sunset..sunrise.
C14_DarkMoonDisjoint ==
    (/\ ValidRecord /\ MoonFound
     /\ Present(v.start_dark, v.end_dark)
     /\ Present(v.start_moon, v.end_moon)) =>
        ~Overlap(v.start_dark.dt, v.end_dark.dt,
                 v.start_moon.dt, v.end_moon.dt)

\* ---------------------------------------------------------------------- C15
\* the type of the most recent night processed
LastType == TypeOf(nights, Len(nights))

\* C15: with both run types enabled, darkRun and brightRun are never both
\* true, and once a night has been processed exactly one of them is true:
\* the flag of the type of the most recent night, whose night counter is at
\* least 1 while the night counter of the other type is 0.
C15_OneRunActive ==
    args.run_mode_type = "None" =>
        /\ ~(darkRun /\ brightRun)
        /\ Len(nights) >= 1 =>
              IF LastType = "DR"
              THEN /\ darkRun /\ ~brightRun
                   /\ dark_run_night_number >= 1
                   /\ bright_run_night_number = 0
              ELSE /\ brightRun /\ ~darkRun
                   /\ bright_run_night_number >= 1
                   /\ dark_run_night_number = 0

\* a bright night after two dark nights: the dark run is closed, the bright
\* run is active with its first night
C15_Witness ==
    /\ args.run_mode_type = "None"
    /\ Len(nights) = 3
    /\ TypeOf(nights, 1) = "DR" /\ TypeOf(nights, 2) = "DR"
    /\ LastType = "BR"
    /\ brightRun /\ ~darkRun
    /\ bright_run_night_number = 1 /\ dark_run_night_number = 0

====
